---- MODULE Spec2Model ----
(***************************************************************************)
(* toy-dbms: slotted heap pages (toydbms/physical.py), the pull-based      *)
(* operator nodes and the statement executor (toydbms/execution.py).       *)
(*                                                                         *)
(* Bytes are naturals 0..255, a bytes object is a sequence of them.  A     *)
(* Python str is the sequence of its code points.  A Python offset o (0-   *)
(* based) into a buffer is element o+1 of the sequence.  An optional value *)
(* (None or x) is the sequence <<>> or <<x>>.                              *)
(***************************************************************************)
EXTENDS Integers, Sequences, FiniteSets, TLC

VARIABLES
  page,       \* the HeapPage object under test (physical.py)
  fresh,      \* history: page was built by HeapPage(schema) and insert_record only
  inserted,   \* history: the records insert_record accepted, in call order
  last,       \* history: the last HeapPage call, its argument and how it ended
  disk,       \* the file system: data_path -> <<>> (no file) or <<bytes>>
  pc,         \* execute(): "idle", "pulling" (inside the list comprehension of
              \* execute_dml), "returned" or "raised"
  stmt,       \* the statement being executed, or executed last
  entry_node, \* execute_dml's entry_node: <<>> or <<the operator tree>>
  result,     \* the rows execute_dml has collected; its return value on return
  exc,        \* the exception the last statement raised, or NoExc
  log,        \* history: data_path -> the rows Insert statements have inserted
  disk0,      \* history: the file system when the statement began
  pulled      \* history: the rows the statement's InsertNode took from its
              \* child in its first pull

pagevars == <<page, fresh, inserted, last>>

dbvars == <<disk, pc, stmt, entry_node, result, exc, log, disk0, pulled>>

vars == <<page, fresh, inserted, last,
          disk, pc, stmt, entry_node, result, exc, log, disk0, pulled>>

----------------------------------------------------------------------------
(* Bounds of the model.                                                    *)

\* page_size: the pages of the model are smaller than DEFAULT_PAGE_SIZE
PageSize == 24

\* the most rows in the values_clause of one Insert
MaxRows == 3

\* the most rows the Insert statements put into one table
MaxTableRows == 4

\* the most rows execute_dml collects before the model stops following it
MaxResult == 5

\* the most sort columns in the order_clause of one Query
MaxSortColumns == 2

----------------------------------------------------------------------------
(* Small helpers on sequences.                                             *)

Min(a, b) == IF a <= b THEN a ELSE b

\* b[lo:hi] of Python for 0 <= lo, clipped at the end of b
Slice(b, lo, hi) == SubSeq(b, lo + 1, Min(hi, Len(b)))

\* b[lo:lo+len(x)] = x of Python, for a window inside b
Splice(b, lo, x) ==
  [i \in 1..Len(b) |-> IF i > lo /\ i <= lo + Len(x) THEN x[i - lo] ELSE b[i]]


NoExc == "none"

----------------------------------------------------------------------------
(* struct.pack / struct.unpack of the formats the program uses.            *)

\* struct.pack("<H", n), for 0 <= n < 65536
pack_H(n) == <<n % 256, (n \div 256) % 256>>

\* struct.unpack("<H", b)[0] for a two byte b
unpack_H(b) == b[1] + 256 * b[2]

\* struct.pack("<I", n), for 0 <= n < 2^32
pack_I(n) ==
  <<n % 256, (n \div 256) % 256, (n \div 65536) % 256, (n \div 16777216) % 256>>

unpack_I(b) == b[1] + 256 * b[2] + 65536 * b[3] + 16777216 * b[4]

----------------------------------------------------------------------------
(* str.encode("utf8") and bytes.decode("utf8") for code points of the      *)
(* basic multilingual plane (no surrogates).                               *)

encode_char(cp) ==
  IF cp < 128 THEN <<cp>>
  ELSE IF cp < 2048 THEN <<192 + (cp \div 64), 128 + (cp % 64)>>
  ELSE <<224 + (cp \div 4096), 128 + ((cp \div 64) % 64), 128 + (cp % 64)>>

RECURSIVE encode_utf8(_)
encode_utf8(s) ==
  IF s = <<>> THEN <<>> ELSE encode_char(Head(s)) \o encode_utf8(Tail(s))

IsCont(b, i) == i <= Len(b) /\ b[i] >= 128 /\ b[i] < 192

\* [exc, val]: the decoded str, or UnicodeDecodeError
RECURSIVE decode_utf8(_)
decode_utf8(b) ==
  IF b = <<>> THEN [exc |-> NoExc, val |-> <<>>]
  ELSE IF b[1] < 128 THEN
    LET r == decode_utf8(Tail(b))
    IN  [exc |-> r.exc, val |-> <<b[1]>> \o r.val]
  ELSE IF b[1] >= 194 /\ b[1] < 224 /\ IsCont(b, 2) THEN
    LET r == decode_utf8(SubSeq(b, 3, Len(b)))
    IN  [exc |-> r.exc, val |-> <<(b[1] - 192) * 64 + (b[2] - 128)>> \o r.val]
  ELSE IF b[1] >= 224 /\ b[1] < 240 /\ IsCont(b, 2) /\ IsCont(b, 3)
          /\ (b[1] - 224) * 4096 + (b[2] - 128) * 64 >= 2048 THEN
    LET r == decode_utf8(SubSeq(b, 4, Len(b)))
    IN  [exc |-> r.exc,
         val |-> <<(b[1] - 224) * 4096 + (b[2] - 128) * 64 + (b[3] - 128)>> \o r.val]
  ELSE [exc |-> "UnicodeDecodeError", val |-> <<>>]

----------------------------------------------------------------------------
(* The column codecs.  marshall gives [exc, bytes]; unmarshall reads from  *)
(* a BytesIO cursor [buf, pos] and gives [exc, val, pos]; from_str gives   *)
(* [exc, val].                                                             *)

UInt32_marshall(value) ==
  IF value < 0 \/ value \div 65536 >= 65536
  THEN [exc |-> "struct.error", bytes |-> <<>>]
  ELSE [exc |-> NoExc, bytes |-> pack_I(value)]

UInt32_unmarshall(buf, pos) ==
  LET data == Slice(buf, pos, pos + 4)
  IN  IF Len(data) # 4
      THEN [exc |-> "struct.error", val |-> 0, pos |-> pos + Len(data)]
      ELSE [exc |-> NoExc, val |-> unpack_I(data), pos |-> pos + 4]

IsDigit(c) == c >= 48 /\ c <= 57

\* int(value) for a str of decimal digits; any other str of the model's
\* alphabet is no integer literal
RECURSIVE DigitsValue(_)
DigitsValue(s) ==
  IF s = <<>> THEN 0
  ELSE 10 * DigitsValue(SubSeq(s, 1, Len(s) - 1)) + (s[Len(s)] - 48)

UInt32_from_str(value) ==
  IF value # <<>> /\ \A i \in 1..Len(value) : IsDigit(value[i])
  THEN [exc |-> NoExc, val |-> DigitsValue(value)]
  ELSE [exc |-> "ValueError", val |-> 0]

\* Text_marshall with the length of the str where the length of its bytes belongs
Text_marshall_charlen(value) ==
  LET bin_value == encode_utf8(value)
  IN  IF Len(value) > 255
      THEN [exc |-> "struct.error", bytes |-> <<>>]
      ELSE [exc |-> NoExc, bytes |-> <<Len(value)>> \o bin_value]

Text_marshall(value) ==
  LET bin_value == encode_utf8(value)
  IN  IF Len(bin_value) > 255
      THEN [exc |-> "struct.error", bytes |-> <<>>]
      ELSE [exc |-> NoExc, bytes |-> <<Len(bin_value)>> \o bin_value]

Text_unmarshall(buf, pos) ==
  LET lenb == Slice(buf, pos, pos + 1)
      decoded(data, d) ==
        [exc |-> d.exc, val |-> d.val, pos |-> pos + 1 + Len(data)]
      read(data) == decoded(data, decode_utf8(data))
  IN  IF Len(lenb) # 1
      THEN [exc |-> "struct.error", val |-> <<>>, pos |-> pos]
      ELSE read(Slice(buf, pos + 1, pos + 1 + lenb[1]))

Text_from_str(value) == [exc |-> NoExc, val |-> value]

DType_marshall(dtype, value) ==
  IF dtype = "UInt32" THEN UInt32_marshall(value) ELSE Text_marshall(value)

DType_unmarshall(dtype, buf, pos) ==
  IF dtype = "UInt32" THEN UInt32_unmarshall(buf, pos) ELSE Text_unmarshall(buf, pos)

DType_from_str(dtype, value) ==
  IF dtype = "UInt32" THEN UInt32_from_str(value) ELSE Text_from_str(value)

\* the schema of the model's tables: a UInt32 column and a Text column
Schema ==
  << [name |-> "movieId", dtype |-> "UInt32"],
     [name |-> "title",   dtype |-> "Text"] >>

----------------------------------------------------------------------------
(* HeapPage (physical.py).  An object is the record                        *)
(* [buff, record_pointers_end, records_start, iter_idx].                   *)

\* HeapPage.num_records, read from the header word of a buffer
HeapPage_num_records(buff) == unpack_H(Slice(buff, 0, 2))

\* HeapPage._get_record_start_idx: the u16 at offset 2 + 2 * record_num
HeapPage_get_record_start_idx(buff, record_num) ==
  unpack_H(Slice(buff, 2 + 2 * record_num, 4 + 2 * record_num))

\* HeapPage(schema, page_size): init_buff is None
HeapPage_new(page_size) ==
  [buff |-> [i \in 1..page_size |-> 0],
   record_pointers_end |-> 2,
   records_start |-> page_size,
   iter_idx |-> 0]

\* HeapPage(schema, init_buff=init_buff)
HeapPage_from_buff(init_buff) ==
  [buff |-> init_buff,
   record_pointers_end |-> 2 + 2 * HeapPage_num_records(init_buff),
   records_start |->
     HeapPage_get_record_start_idx(init_buff, HeapPage_num_records(init_buff) - 1),
   iter_idx |-> 0]

HeapPage_free_bytes(p) ==
  LET page_size    == Len(p.buff)
      records_size == page_size - p.records_start
  IN  page_size - 2 - 2 * HeapPage_num_records(p.buff) - records_size

\* HeapPage_can_fit_record forgetting the two bytes of the slot
HeapPage_can_fit_record_noslot(p, record_bin) ==
  Len(record_bin) <= HeapPage_free_bytes(p)

HeapPage_can_fit_record(p, record_bin) ==
  2 + Len(record_bin) <= HeapPage_free_bytes(p)

\* b"".join([dtype.marshall(val) for (_, dtype), val in zip(schema, record)]):
\* [exc, bytes], exc the first exception a column raises
RECURSIVE MarshallColumns(_, _, _)
MarshallColumns(schema, record, i) ==
  LET join(m) ==
        IF m.exc # NoExc THEN m
        ELSE LET r == MarshallColumns(schema, record, i + 1)
             IN  [exc |-> r.exc, bytes |-> m.bytes \o r.bytes]
  IN  IF i > Min(Len(schema), Len(record)) THEN [exc |-> NoExc, bytes |-> <<>>]
      ELSE join(DType_marshall(schema[i].dtype, record[i]))

MarshallRecord(schema, record) == MarshallColumns(schema, record, 1)

\* HeapPage_insert_record moving records_start before it checks the space
HeapPage_insert_record_eager(p, schema, record) ==
  LET insert(m) ==
        LET record_bin == m.bytes
            rs  == p.records_start - Len(record_bin)
            rpe == p.record_pointers_end + 2
            b1  == Splice(p.buff, rs, record_bin)
            b2  == Splice(b1, rpe - 2, pack_H(rs))
            b3  == Splice(b2, 0, pack_H(HeapPage_num_records(b2) + 1))
        IN  IF m.exc # NoExc THEN [exc |-> m.exc, page |-> p]
            ELSE IF ~HeapPage_can_fit_record(p, record_bin)
            THEN [exc |-> "InsufficientSpaceError",
                  page |-> [p EXCEPT !.records_start = rs]]
            ELSE [exc |-> NoExc,
                  page |-> [p EXCEPT !.buff = b3,
                                     !.record_pointers_end = rpe,
                                     !.records_start = rs]]
  IN  insert(MarshallRecord(schema, record))

\* HeapPage_insert_record writing the slot one word too far
HeapPage_insert_record_slot(p, schema, record) ==
  LET insert(m) ==
        LET record_bin == m.bytes
            rs  == p.records_start - Len(record_bin)
            rpe == p.record_pointers_end + 2
            b1  == Splice(p.buff, rs, record_bin)
            b2  == Splice(b1, rpe, pack_H(rs))
            b3  == Splice(b2, 0, pack_H(HeapPage_num_records(b2) + 1))
        IN  IF m.exc # NoExc THEN [exc |-> m.exc, page |-> p]
            ELSE IF ~HeapPage_can_fit_record(p, record_bin)
            THEN [exc |-> "InsufficientSpaceError", page |-> p]
            ELSE [exc |-> NoExc,
                  page |-> [p EXCEPT !.buff = b3,
                                     !.record_pointers_end = rpe,
                                     !.records_start = rs]]
  IN  insert(MarshallRecord(schema, record))

\* HeapPage.insert_record: [exc, page]
HeapPage_insert_record(p, schema, record) ==
  LET insert(m) ==
        LET record_bin == m.bytes
            rs  == p.records_start - Len(record_bin)
            rpe == p.record_pointers_end + 2
            b1  == Splice(p.buff, rs, record_bin)
            b2  == Splice(b1, rpe - 2, pack_H(rs))
            b3  == Splice(b2, 0, pack_H(HeapPage_num_records(b2) + 1))
        IN  IF m.exc # NoExc THEN [exc |-> m.exc, page |-> p]
            ELSE IF ~HeapPage_can_fit_record(p, record_bin)
            THEN [exc |-> "InsufficientSpaceError", page |-> p]
            ELSE [exc |-> NoExc,
                  page |-> [p EXCEPT !.buff = b3,
                                     !.record_pointers_end = rpe,
                                     !.records_start = rs]]
  IN  insert(MarshallRecord(schema, record))

\* HeapPage.marshall giving the header and the slots only
HeapPage_marshall_trimmed(p) == SubSeq(p.buff, 1, p.record_pointers_end)

\* HeapPage.marshall
HeapPage_marshall(p) == p.buff

\* HeapPage.__iter__
HeapPage_iter(p) == [p EXCEPT !.iter_idx = 0]

\* [dtype.unmarshall(record_buff) for (_, dtype) in schema]: [exc, row]
RECURSIVE UnmarshallColumns(_, _, _, _)
UnmarshallColumns(schema, buf, pos, i) ==
  LET rest(u) ==
        IF u.exc # NoExc THEN [exc |-> u.exc, row |-> <<>>]
        ELSE LET r == UnmarshallColumns(schema, buf, u.pos, i + 1)
             IN  [exc |-> r.exc, row |-> <<u.val>> \o r.row]
  IN  IF i > Len(schema) THEN [exc |-> NoExc, row |-> <<>>]
      ELSE rest(DType_unmarshall(schema[i].dtype, buf, pos))

\* HeapPage.__next__: [exc, page, row]; exc is StopIteration at the end
HeapPage_next(p, schema) ==
  LET record_start == HeapPage_get_record_start_idx(p.buff, p.iter_idx)
      record_end   == IF p.iter_idx = 0 THEN Len(p.buff)
                      ELSE HeapPage_get_record_start_idx(p.buff, p.iter_idx - 1)
      record_buff  == Slice(p.buff, record_start, record_end)
      row(u) == [exc |-> u.exc,
                 page |-> [p EXCEPT !.iter_idx = p.iter_idx + 1],
                 row |-> u.row]
  IN  IF p.iter_idx >= HeapPage_num_records(p.buff)
      THEN [exc |-> "StopIteration", page |-> p, row |-> <<>>]
      ELSE row(UnmarshallColumns(schema, record_buff, 0, 1))

\* list(page): the rows a fresh iteration of the page yields, [exc, rows]
RECURSIVE HeapPage_rows(_, _)
HeapPage_rows(p, schema) ==
  LET rest(n) ==
        IF n.exc = "StopIteration" THEN [exc |-> NoExc, rows |-> <<>>]
        ELSE IF n.exc # NoExc THEN [exc |-> n.exc, rows |-> <<>>]
        ELSE LET r == HeapPage_rows(n.page, schema)
             IN  [exc |-> r.exc, rows |-> <<n.row>> \o r.rows]
  IN  rest(HeapPage_next(p, schema))

----------------------------------------------------------------------------
(* The operator nodes (execution.py).  A node is a record tagged by kind;  *)
(* a pull gives [exc, node, disk, row, pulled]: exc is NoExc with the row  *)
(* returned, "StopIteration" at the end, or the exception raised; node and *)
(* disk are the node and the file system after the pull.                   *)

Out(e, n, d, r, g) == [exc |-> e, node |-> n, disk |-> d, row |-> r, pulled |-> g]

\* Table.columns
Columns(schema) == [i \in 1..Len(schema) |-> schema[i].name]

\* list.index(x) + 1, or 0 where Python raises ValueError
IndexOf(seq, x) ==
  IF \E i \in 1..Len(seq) : seq[i] = x
  THEN CHOOSE i \in 1..Len(seq) : seq[i] = x /\ \A j \in 1..(i - 1) : seq[j] # x
  ELSE 0

\* FileWrite without the seek back to pos: the data lands at the end of the file
FileWrite_unseeked(d, path, pos, data) ==
  [d EXCEPT ![path] = <<d[path][1] \o data>>]

\* FileWrite whose data never reaches the file
FileWrite_discarding(d, path, pos, data) == d

\* f.seek(pos); f.write(data) on the file at path
FileWrite(d, path, pos, data) ==
  LET file == d[path][1]
  IN  [d EXCEPT ![path] =
         <<SubSeq(file, 1, pos) \o data \o SubSeq(file, pos + Len(data) + 1, Len(file))>>]

FileScanNode(path) ==
  [kind |-> "FileScan", path |-> path, page_size |-> PageSize, fpos |-> 0, page |-> <<>>]

ValuesNode(values) == [kind |-> "Values", values |-> values, idx |-> 0]

InsertNode(child, path) ==
  [kind |-> "Insert", child |-> child, path |-> path, page_size |-> PageSize,
   num_inserted |-> 0]

ProjectionNode(child, idxs) ==
  [kind |-> "Projection", child |-> child, projection_col_idxs |-> idxs]

SelectionNode(child, filter, idxs) ==
  [kind |-> "Selection", child |-> child, filter |-> filter, col_arg_idxs |-> idxs]

\* budget and child_pulls are history: the limit the node was built with and
\* the number of times it has pulled its child
LimitNode(child, limit) ==
  [kind |-> "Limit", child |-> child, limit |-> limit,
   budget |-> limit, child_pulls |-> 0]

SortNode(child, sort_columns) ==
  [kind |-> "Sort", child |-> child, sort_columns |-> sort_columns,
   reverse_sorted_rows |-> <<>>]

\* a < b for two str, by code point
RECURSIVE StrLess(_, _)
StrLess(a, b) ==
  IF b = <<>> THEN FALSE
  ELSE IF a = <<>> THEN TRUE
  ELSE IF a[1] # b[1] THEN a[1] < b[1]
  ELSE StrLess(Tail(a), Tail(b))

\* a < b of Python for two values of a column type
ValueLess(dtype, a, b) == IF dtype = "UInt32" THEN a < b ELSE StrLess(a, b)

\* where x goes in a list already sorted: before the first element it must
\* precede, after every element it compares equal to
RECURSIVE SortedInsert(_, _, _, _, _)
SortedInsert(sorted, x, col_idx, dtype, reverse) ==
  IF sorted = <<>> THEN <<x>>
  ELSE LET e == Head(sorted)
           before == IF reverse THEN ValueLess(dtype, e[col_idx], x[col_idx])
                     ELSE ValueLess(dtype, x[col_idx], e[col_idx])
       IN  IF before THEN <<x>> \o sorted
           ELSE <<e>> \o SortedInsert(Tail(sorted), x, col_idx, dtype, reverse)

\* rows.sort(key=lambda r: r[col_idx], reverse=reverse): a stable sort
RECURSIVE list_sort(_, _, _, _)
list_sort(rows, col_idx, dtype, reverse) ==
  IF rows = <<>> THEN <<>>
  ELSE SortedInsert(list_sort(SubSeq(rows, 1, Len(rows) - 1), col_idx, dtype, reverse),
                    rows[Len(rows)], col_idx, dtype, reverse)

RECURSIVE SortPasses(_, _, _)

\* SortPasses taking the sort columns in the order given, not reversed
SortPasses_forward(rows, sort_columns, k) ==
  IF k = 0 THEN [exc |-> NoExc, rows |-> rows]
  ELSE LET j == Len(sort_columns) - k + 1
           col_idx == IndexOf(Columns(Schema), sort_columns[j].column)
       IN  IF col_idx = 0 THEN [exc |-> "ValueError", rows |-> rows]
           ELSE SortPasses(list_sort(rows, col_idx, Schema[col_idx].dtype,
                                     sort_columns[j].asc),
                           sort_columns, k - 1)

\* the loop of SortNode._init_sorted_rows over reversed(sort_columns), from
\* sort column k down to the first: [exc, rows]
SortPasses(rows, sort_columns, k) ==
  IF k = 0 THEN [exc |-> NoExc, rows |-> rows]
  ELSE LET col_idx == IndexOf(Columns(Schema), sort_columns[k].column)
       IN  IF col_idx = 0 THEN [exc |-> "ValueError", rows |-> rows]
           ELSE SortPasses(list_sort(rows, col_idx, Schema[col_idx].dtype,
                                     sort_columns[k].asc),
                           sort_columns, k - 1)

\* Filter.predicate(*args): the predicates of the model are "c in s"
Predicate(filter, args) == \E i \in 1..Len(args[1]) : args[1][i] = filter.predicate

\* [dtype.from_str(val) for (_, dtype), val in zip(schema, values_row)]
RECURSIVE FromStrColumns(_, _, _)
FromStrColumns(schema, vals, i) ==
  LET rest(v) ==
        IF v.exc # NoExc THEN [exc |-> v.exc, row |-> <<>>]
        ELSE LET r == FromStrColumns(schema, vals, i + 1)
             IN  [exc |-> r.exc, row |-> <<v.val>> \o r.row]
  IN  IF i > Min(Len(schema), Len(vals)) THEN [exc |-> NoExc, row |-> <<>>]
      ELSE rest(DType_from_str(schema[i].dtype, vals[i]))

RECURSIVE Node_next(_, _)
RECURSIVE Drain(_, _)
RECURSIVE FileScanNode_next(_, _)
RECURSIVE InsertNode_loop(_, _, _, _, _)
RECURSIVE SelectionNode_next(_, _)

\* FileScanNode.__next__ going back to the first page when the file ends
FileScanNode_next_rewinding(n, d) ==
  LET read(page_bin) ==
        LET n1 == [n EXCEPT !.fpos = n.fpos + Len(page_bin)]
        IN  IF Len(page_bin) = 0
            THEN Out("StopIteration", [n EXCEPT !.fpos = 0], d, <<>>, <<>>)
            ELSE IF Len(page_bin) # n.page_size THEN Out("ValueError", n1, d, <<>>, <<>>)
            ELSE FileScanNode_next([n1 EXCEPT !.page = <<HeapPage_from_buff(page_bin)>>], d)
      record(r) ==
        IF r.exc = "StopIteration" THEN FileScanNode_next([n EXCEPT !.page = <<>>], d)
        ELSE Out(r.exc, [n EXCEPT !.page = <<r.page>>], d, r.row, <<>>)
  IN  IF n.page = <<>>
      THEN read(Slice(d[n.path][1], n.fpos, n.fpos + n.page_size))
      ELSE record(HeapPage_next(n.page[1], Schema))

\* FileScanNode.__next__
FileScanNode_next(n, d) ==
  LET read(page_bin) ==
        LET n1 == [n EXCEPT !.fpos = n.fpos + Len(page_bin)]
        IN  IF Len(page_bin) = 0 THEN Out("StopIteration", n1, d, <<>>, <<>>)
            ELSE IF Len(page_bin) # n.page_size THEN Out("ValueError", n1, d, <<>>, <<>>)
            ELSE FileScanNode_next([n1 EXCEPT !.page = <<HeapPage_from_buff(page_bin)>>], d)
      record(r) ==
        IF r.exc = "StopIteration" THEN FileScanNode_next([n EXCEPT !.page = <<>>], d)
        ELSE Out(r.exc, [n EXCEPT !.page = <<r.page>>], d, r.row, <<>>)
  IN  IF n.page = <<>>
      THEN read(Slice(d[n.path][1], n.fpos, n.fpos + n.page_size))
      ELSE record(HeapPage_next(n.page[1], Schema))

\* ValuesNode.__next__
ValuesNode_next(n, d) ==
  LET record(r) ==
        IF r.exc # NoExc THEN Out(r.exc, n, d, <<>>, <<>>)
        ELSE Out(NoExc, [n EXCEPT !.idx = n.idx + 1], d, r.row, <<>>)
  IN  IF n.idx >= Len(n.values) THEN Out("StopIteration", n, d, <<>>, <<>>)
      ELSE record(FromStrColumns(Schema, n.values[n.idx + 1], 1))

\* InsertNode_count counting every second record
InsertNode_count_skipping(n) ==
  [n EXCEPT !.num_inserted = IF n.num_inserted = 1 THEN 1 ELSE n.num_inserted + 1]

\* self._num_inserted += 1
InsertNode_count(n) == [n EXCEPT !.num_inserted = n.num_inserted + 1]

\* the body of "for record in self._child" and what follows it in
\* InsertNode.__next__: pg is the HeapPage held, pos the file position,
\* got the records taken from the child so far.  The page allocated on
\* InsufficientSpaceError is HeapPage(schema), of the default page size.
InsertNode_loop(n, d, pg, pos, got) ==
  LET rotate(c, n1, g2, d2, i2) ==
        IF i2.exc # NoExc THEN Out(i2.exc, n1, d2, <<>>, g2)
        ELSE InsertNode_loop(InsertNode_count(n1), d2, i2.page, pos + n.page_size, g2)
      insert(c, n1, g2, i1) ==
        IF i1.exc = NoExc
        THEN InsertNode_loop(InsertNode_count(n1), c.disk, i1.page, pos, g2)
        ELSE IF i1.exc # "InsufficientSpaceError" THEN Out(i1.exc, n1, c.disk, <<>>, g2)
        ELSE rotate(c, n1, g2,
                    FileWrite(c.disk, n.path, pos, HeapPage_marshall(pg)),
                    HeapPage_insert_record(HeapPage_new(PageSize), Schema, c.row))
      record(c, n1) ==
        IF c.exc = "StopIteration" THEN
          Out(NoExc, n1,
              IF HeapPage_num_records(pg.buff) > 0
              THEN FileWrite(c.disk, n.path, pos, HeapPage_marshall(pg))
              ELSE c.disk,
              <<n1.num_inserted>>, got)
        ELSE IF c.exc # NoExc THEN Out(c.exc, n1, c.disk, <<>>, got)
        ELSE insert(c, n1, Append(got, c.row), HeapPage_insert_record(pg, Schema, c.row))
      pull(c) == record(c, [n EXCEPT !.child = c.node])
  IN  pull(Node_next(n.child, d))

\* InsertNode.__next__ writing from the start of the file: the seek after
\* the read goes to 0 instead of back one page from the end
InsertNode_next_rewinding(n, d) ==
  LET load(pos) ==
        InsertNode_loop(n, d, HeapPage_from_buff(Slice(d[n.path][1], pos, pos + n.page_size)),
                        0, <<>>)
  IN  IF n.num_inserted > 0 THEN Out("StopIteration", n, d, <<>>, <<>>)
      ELSE IF d[n.path] = <<>> THEN Out("FileNotFoundError", n, d, <<>>, <<>>)
      ELSE IF Len(d[n.path][1]) < n.page_size THEN Out("OSError", n, d, <<>>, <<>>)
      ELSE load(Len(d[n.path][1]) - n.page_size)

\* InsertNode.__next__
InsertNode_next(n, d) ==
  LET load(pos) ==
        InsertNode_loop(n, d, HeapPage_from_buff(Slice(d[n.path][1], pos, pos + n.page_size)),
                        pos, <<>>)
  IN  IF n.num_inserted > 0 THEN Out("StopIteration", n, d, <<>>, <<>>)
      ELSE IF d[n.path] = <<>> THEN Out("FileNotFoundError", n, d, <<>>, <<>>)
      ELSE IF Len(d[n.path][1]) < n.page_size THEN Out("OSError", n, d, <<>>, <<>>)
      ELSE load(Len(d[n.path][1]) - n.page_size)

\* ProjectionNode.__next__
ProjectionNode_next(n, d) ==
  LET project(c, n1) ==
        IF c.exc # NoExc THEN Out(c.exc, n1, c.disk, <<>>, <<>>)
        ELSE IF \E k \in 1..Len(n.projection_col_idxs) :
                  n.projection_col_idxs[k] > Len(c.row)
        THEN Out("IndexError", n1, c.disk, <<>>, <<>>)
        ELSE Out(NoExc, n1, c.disk,
                 [k \in 1..Len(n.projection_col_idxs) |-> c.row[n.projection_col_idxs[k]]],
                 <<>>)
      pull(c) == project(c, [n EXCEPT !.child = c.node])
  IN  pull(Node_next(n.child, d))

\* SelectionNode.__next__
SelectionNode_next(n, d) ==
  LET select(c, n1) ==
        IF c.exc # NoExc THEN Out(c.exc, n1, c.disk, <<>>, <<>>)
        ELSE IF \E k \in 1..Len(n.col_arg_idxs) : n.col_arg_idxs[k] > Len(c.row)
        THEN Out("IndexError", n1, c.disk, <<>>, <<>>)
        ELSE IF Predicate(n.filter,
                          [k \in 1..Len(n.col_arg_idxs) |-> c.row[n.col_arg_idxs[k]]])
        THEN Out(NoExc, n1, c.disk, c.row, <<>>)
        ELSE SelectionNode_next(n1, c.disk)
      pull(c) == select(c, [n EXCEPT !.child = c.node])
  IN  pull(Node_next(n.child, d))

\* LimitNode.__next__ stopping one pull late: limit < 0 for limit <= 0
LimitNode_next_late(n, d) ==
  LET pull(c) ==
        Out(c.exc,
            [n EXCEPT !.limit = n.limit - 1, !.child = c.node,
                      !.child_pulls = n.child_pulls + 1],
            c.disk, c.row, <<>>)
  IN  IF n.limit < 0 THEN Out("StopIteration", n, d, <<>>, <<>>)
      ELSE pull(Node_next(n.child, d))

\* LimitNode.__next__
LimitNode_next(n, d) ==
  LET pull(c) ==
        Out(c.exc,
            [n EXCEPT !.limit = n.limit - 1, !.child = c.node,
                      !.child_pulls = n.child_pulls + 1],
            c.disk, c.row, <<>>)
  IN  IF n.limit <= 0 THEN Out("StopIteration", n, d, <<>>, <<>>)
      ELSE pull(Node_next(n.child, d))

\* SortNode._init_sorted_rows: [exc, node, disk]
SortNode_init_sorted_rows(n, d) ==
  LET sorted(dr, n1, sp) ==
        IF sp.exc # NoExc THEN [exc |-> sp.exc, node |-> n1, disk |-> dr.disk]
        ELSE [exc |-> NoExc,
              node |-> [n1 EXCEPT !.reverse_sorted_rows = <<sp.rows>>],
              disk |-> dr.disk]
      drained(dr, n1) ==
        IF dr.exc # NoExc THEN [exc |-> dr.exc, node |-> n1, disk |-> dr.disk]
        ELSE sorted(dr, n1, SortPasses(dr.rows, n.sort_columns, Len(n.sort_columns)))
      rows(dr) == drained(dr, [n EXCEPT !.child = dr.node])
  IN  rows(Drain(n.child, d))

\* SortNode.__next__
SortNode_next(n, d) ==
  LET pop(i) ==
        IF i.exc # NoExc THEN Out(i.exc, i.node, i.disk, <<>>, <<>>)
        ELSE LET rows == i.node.reverse_sorted_rows[1]
             IN  IF rows = <<>> THEN Out("StopIteration", i.node, i.disk, <<>>, <<>>)
                 ELSE Out(NoExc,
                          [i.node EXCEPT !.reverse_sorted_rows =
                                            <<SubSeq(rows, 1, Len(rows) - 1)>>],
                          i.disk, rows[Len(rows)], <<>>)
  IN  pop(IF n.reverse_sorted_rows = <<>> THEN SortNode_init_sorted_rows(n, d)
          ELSE [exc |-> NoExc, node |-> n, disk |-> d])

\* next(node)
Node_next(n, d) ==
  CASE n.kind = "FileScan"   -> FileScanNode_next(n, d)
    [] n.kind = "Values"     -> ValuesNode_next(n, d)
    [] n.kind = "Insert"     -> InsertNode_next(n, d)
    [] n.kind = "Projection" -> ProjectionNode_next(n, d)
    [] n.kind = "Selection"  -> SelectionNode_next(n, d)
    [] n.kind = "Limit"      -> LimitNode_next(n, d)
    [] n.kind = "Sort"       -> SortNode_next(n, d)

\* [r for r in node]: [exc, node, disk, rows]
Drain(n, d) ==
  LET more(c, r) ==
        [exc |-> r.exc, node |-> r.node, disk |-> r.disk, rows |-> <<c.row>> \o r.rows]
      rest(c) ==
        IF c.exc = "StopIteration"
        THEN [exc |-> NoExc, node |-> c.node, disk |-> c.disk, rows |-> <<>>]
        ELSE IF c.exc # NoExc
        THEN [exc |-> c.exc, node |-> c.node, disk |-> c.disk, rows |-> <<>>]
        ELSE more(c, Drain(c.node, c.disk))
  IN  rest(Node_next(n, d))

----------------------------------------------------------------------------
(* The statement executor (execution.py).  Statements are records tagged   *)
(* by kind; an optional clause is <<>> or <<value>>.                       *)

CreateTable(path) == [kind |-> "CreateTable", table |-> path]

Query(from, select, where, order, limit) ==
  [kind |-> "Query", from_clause |-> from, select_clause |-> select,
   where_clause |-> where, order_clause |-> order, limit_clause |-> limit]

Insert(into, values, from) ==
  [kind |-> "Insert", into_clause |-> into, values_clause |-> values,
   from_clause |-> from]

\* the indexes (from 1) of the named columns, 0 for a name the schema lacks
ColumnIdxs(names) == [k \in 1..Len(names) |-> IndexOf(Columns(Schema), names[k])]

HasUnknown(idxs) == \E k \in 1..Len(idxs) : idxs[k] = 0

\* _get_abstract_query_entry_node: [exc, node]
get_abstract_query_entry_node(s, d) ==
  IF d[s.from_clause] = <<>> THEN [exc |-> "FileNotFoundError", node |-> <<>>]
  ELSE
    LET n0 == FileScanNode(s.from_clause)
        sel == s.where_clause # <<>>
        widx == IF sel THEN ColumnIdxs(s.where_clause[1].column_args) ELSE <<>>
        n1 == IF sel THEN SelectionNode(n0, s.where_clause[1], widx) ELSE n0
        n2 == IF s.order_clause # <<>> /\ s.order_clause[1] # <<>>
              THEN SortNode(n1, s.order_clause[1]) ELSE n1
        n3 == IF s.limit_clause # <<>> /\ s.limit_clause[1] # 0
              THEN LimitNode(n2, s.limit_clause[1]) ELSE n2
        prj == s.select_clause # <<>> /\ s.select_clause[1] # <<>>
        pidx == IF prj THEN ColumnIdxs(s.select_clause[1]) ELSE <<>>
        n4 == IF prj THEN ProjectionNode(n3, pidx) ELSE n3
    IN  IF HasUnknown(widx) \/ HasUnknown(pidx)
        THEN [exc |-> "ValueError", node |-> <<>>]
        ELSE [exc |-> NoExc, node |-> <<n4>>]

\* execute_dml without the test for both clauses: the values_clause wins
execute_dml_entry_node_lenient(s, d) ==
  LET insert(q) ==
        IF q.exc # NoExc THEN q
        ELSE [exc |-> NoExc, node |-> <<InsertNode(q.node[1], s.into_clause)>>]
  IN  IF s.kind = "Query" THEN get_abstract_query_entry_node(s, d)
      ELSE IF s.values_clause # <<>>
      THEN [exc |-> NoExc,
            node |-> <<InsertNode(ValuesNode(s.values_clause[1]), s.into_clause)>>]
      ELSE IF s.from_clause # <<>>
      THEN insert(get_abstract_query_entry_node(s.from_clause[1], d))
      ELSE [exc |-> "ValueError", node |-> <<>>]

\* execute_dml up to "return [r for r in entry_node]": [exc, node]
execute_dml_entry_node(s, d) ==
  LET insert(q) ==
        IF q.exc # NoExc THEN q
        ELSE [exc |-> NoExc, node |-> <<InsertNode(q.node[1], s.into_clause)>>]
  IN  IF s.kind = "Query" THEN get_abstract_query_entry_node(s, d)
      ELSE IF s.values_clause # <<>> /\ s.from_clause # <<>>
      THEN [exc |-> "ValueError", node |-> <<>>]
      ELSE IF s.values_clause # <<>>
      THEN [exc |-> NoExc,
            node |-> <<InsertNode(ValuesNode(s.values_clause[1]), s.into_clause)>>]
      ELSE IF s.from_clause # <<>>
      THEN insert(get_abstract_query_entry_node(s.from_clause[1], d))
      ELSE [exc |-> "ValueError", node |-> <<>>]

\* execute_ddl without the os.path.exists test: open(path, 'wb') truncates
execute_ddl_overwriting(s, d) ==
  [exc |-> NoExc,
   disk |-> [d EXCEPT ![s.table] = <<HeapPage_marshall(HeapPage_new(PageSize))>>]]

\* execute_ddl: [exc, disk]
execute_ddl(s, d) ==
  IF d[s.table] # <<>> THEN [exc |-> "ValueError", disk |-> d]
  ELSE [exc |-> NoExc,
        disk |-> [d EXCEPT ![s.table] = <<HeapPage_marshall(HeapPage_new(PageSize))>>]]

----------------------------------------------------------------------------
(* Inputs of the model.                                                    *)

Paths == { "t" }

\* str values of a Text column: "", "a", "e acute" (two bytes in UTF-8)
\* and "a" followed by "e acute"
TextValues == { <<>>, <<97>>, <<233>>, <<97, 233>> }

\* UInt32 values whose little-endian bytes differ in the two low bytes
IdValues == { 1, 258 }

\* the records handed to HeapPage.insert_record at the page level
PageRecords == { <<i, t>> : i \in IdValues, t \in TextValues }

\* the literals of a values_clause: "1" and "258", "" and "e acute"
IdLiterals == { <<49>>, <<50, 53, 56>> }

TextLiterals == { <<>>, <<233>> }

ValueRows == { <<i, t>> : i \in IdLiterals, t \in TextLiterals }

\* the lists of at most n values rows
ValueLists(n) == UNION { [1..k -> ValueRows] : k \in 0..n }

NoStmt == [kind |-> "None"]

PageIdle ==
  /\ page = HeapPage_new(PageSize)
  /\ fresh = TRUE
  /\ inserted = <<>>
  /\ last = [op |-> "new"]

DbIdle ==
  /\ disk = [p \in Paths |-> <<>>]
  /\ pc = "idle"
  /\ stmt = NoStmt
  /\ entry_node = <<>>
  /\ result = <<>>
  /\ exc = NoExc
  /\ log = [p \in Paths |-> <<>>]
  /\ disk0 = [p \in Paths |-> <<>>]
  /\ pulled = <<>>

----------------------------------------------------------------------------
(* The page level: one HeapPage, built empty, driven by insert_record,     *)
(* re-adoption from its own image and iteration.                           *)

InitPage == PageIdle /\ DbIdle

\* page.insert_record(record)
InsertRecord ==
  \E record \in PageRecords :
    \E r \in { HeapPage_insert_record(page, Schema, record) } :
      /\ page' = r.page
      /\ inserted' = IF r.exc = NoExc THEN Append(inserted, record) ELSE inserted
      /\ last' = [op |-> "insert_record", before |-> page, fresh |-> fresh,
                  record |-> record, exc |-> r.exc]
      /\ UNCHANGED fresh
      /\ UNCHANGED dbvars

\* page = HeapPage(schema, init_buff=page.marshall())
Adopt ==
  /\ page' = HeapPage_from_buff(HeapPage_marshall(page))
  /\ fresh' = FALSE
  /\ last' = [op |-> "adopt", before |-> page, fresh |-> fresh]
  /\ UNCHANGED inserted
  /\ UNCHANGED dbvars

\* iter(page)
Iter ==
  /\ page' = HeapPage_iter(page)
  /\ last' = [op |-> "iter", before |-> page, fresh |-> fresh]
  /\ UNCHANGED <<fresh, inserted>>
  /\ UNCHANGED dbvars

\* next(page)
NextRecord ==
  \E n \in { HeapPage_next(page, Schema) } :
    /\ page' = n.page
    /\ last' = [op |-> "next", before |-> page, fresh |-> fresh,
                exc |-> n.exc, row |-> n.row]
    /\ UNCHANGED <<fresh, inserted>>
    /\ UNCHANGED dbvars

NextPage == InsertRecord \/ Adopt \/ Iter \/ NextRecord

SpecPage == InitPage /\ [][NextPage]_vars

----------------------------------------------------------------------------
(* The statement level: execute() called with one statement after another. *)
(* execute_ddl is one step; execute_dml is the step that builds the entry  *)
(* node and then one step for each pull of its list comprehension.         *)

\* the rows a values_clause stands for: each literal through from_str
TypedRows(values) ==
  [k \in 1..Len(values) |-> FromStrColumns(Schema, values[k], 1).row]

\* execute(s) for a DDL statement
ExecuteDDL(s) ==
  /\ pc # "pulling"
  /\ \E r \in { execute_ddl(s, disk) } :
       /\ disk' = r.disk
       /\ exc' = r.exc
       /\ pc' = IF r.exc = NoExc THEN "returned" ELSE "raised"
  /\ stmt' = s
  /\ entry_node' = <<>>
  /\ result' = <<>>
  /\ disk0' = disk
  /\ pulled' = <<>>
  /\ UNCHANGED log
  /\ UNCHANGED pagevars

\* execute(s) for a DML statement, up to the list comprehension
ExecuteDMLBegin(s) ==
  /\ pc # "pulling"
  /\ \E e \in { execute_dml_entry_node(s, disk) } :
       /\ entry_node' = e.node
       /\ exc' = e.exc
       /\ pc' = IF e.exc = NoExc THEN "pulling" ELSE "raised"
  /\ stmt' = s
  /\ result' = <<>>
  /\ disk0' = disk
  /\ pulled' = <<>>
  /\ UNCHANGED <<disk, log>>
  /\ UNCHANGED pagevars

\* one round of "[r for r in entry_node]", and the return after the last
ExecuteDMLPull ==
  /\ pc = "pulling"
  /\ Len(result) < MaxResult
  /\ \E c \in { Node_next(entry_node[1], disk) } :
       LET ins == stmt.kind = "Insert"
       IN  /\ entry_node' = <<c.node>>
           /\ disk' = c.disk
           /\ pc' = IF c.exc = NoExc THEN "pulling"
                    ELSE IF c.exc = "StopIteration" THEN "returned" ELSE "raised"
           /\ exc' = IF c.exc \in {NoExc, "StopIteration"} THEN NoExc ELSE c.exc
           /\ result' = IF c.exc = NoExc THEN Append(result, c.row)
                        ELSE IF c.exc = "StopIteration" THEN result ELSE <<>>
           /\ pulled' = IF ins /\ result = <<>> THEN c.pulled ELSE pulled
           /\ log' = IF ins /\ c.exc = NoExc
                     THEN [log EXCEPT ![stmt.into_clause] =
                             @ \o (IF stmt.values_clause # <<>>
                                   THEN TypedRows(stmt.values_clause[1]) ELSE c.pulled)]
                     ELSE log
  /\ UNCHANGED <<stmt, disk0>>
  /\ UNCHANGED pagevars

CreateStmts == { CreateTable(p) : p \in Paths }

\* INSERT INTO p VALUES ..., within the table size of the model
InsertStmts ==
  { Insert(p, <<vs>>, <<>>) : p \in Paths, vs \in ValueLists(MaxRows) }

\* SELECT * FROM p
ScanStmts == { Query(p, <<>>, <<>>, <<>>, <<>>) : p \in Paths }

Fits(s) == Len(log[s.into_clause]) + Len(s.values_clause[1]) <= MaxTableRows

Init == PageIdle /\ DbIdle

Next ==
  \/ \E s \in CreateStmts : ExecuteDDL(s)
  \/ \E s \in InsertStmts : Fits(s) /\ ExecuteDMLBegin(s)
  \/ \E s \in ScanStmts : ExecuteDMLBegin(s)
  \/ ExecuteDMLPull

Spec == Init /\ [][Next]_vars

----------------------------------------------------------------------------
(* The query level: a table loaded by CREATE TABLE and one INSERT, then    *)
(* SELECT * FROM t ORDER BY ... statements.                                *)

SortColumns ==
  { [column |-> c, asc |-> a] : c \in { "movieId", "title" }, a \in BOOLEAN }

OrderClauses == UNION { [1..k -> SortColumns] : k \in 1..MaxSortColumns }

\* SELECT * FROM p ORDER BY oc
SortStmts == { Query(p, <<>>, <<>>, <<oc>>, <<>>) : p \in Paths, oc \in OrderClauses }

\* the file system after CREATE TABLE t and, for a non-empty vs,
\* INSERT INTO t VALUES vs
LoadedDisk(vs) ==
  LET d1 == execute_ddl(CreateTable("t"), [p \in Paths |-> <<>>]).disk
  IN  IF vs = <<>> THEN d1
      ELSE Node_next(InsertNode(ValuesNode(vs), "t"), d1).disk

InitSort ==
  /\ PageIdle
  /\ \E vs \in ValueLists(MaxRows) :
       \E loaded \in { LoadedDisk(vs) } :
         /\ disk = loaded
         /\ log = [p \in Paths |-> TypedRows(vs)]
         /\ disk0 = loaded
  /\ pc = "idle"
  /\ stmt = NoStmt
  /\ entry_node = <<>>
  /\ result = <<>>
  /\ exc = NoExc
  /\ pulled = <<>>

NextSort ==
  \/ \E s \in SortStmts : ExecuteDMLBegin(s)
  \/ ExecuteDMLPull

SpecSort == InitSort /\ [][NextSort]_vars

----------------------------------------------------------------------------
(* The operator level: a loaded table, then queries with any of the WHERE, *)
(* ORDER BY, LIMIT and select clauses, INSERT ... VALUES of one row, and   *)
(* further pulls of an entry node that has signalled the end.              *)

\* Filter(["title"], lambda title: chr(233) in title)
Filters == { [column_args |-> <<"title">>, predicate |-> 233] }

WhereClauses == { <<>> } \cup { <<f>> : f \in Filters }

QueryOrders ==
  { <<>>,
    << << [column |-> "movieId", asc |-> FALSE] >> >>,
    << << [column |-> "title", asc |-> TRUE], [column |-> "movieId", asc |-> TRUE] >> >> }

LimitClauses == { <<>>, <<0>>, <<1>>, <<2>> }

SelectClauses == { <<>>, << <<"title">> >> }

\* SELECT select FROM p WHERE where ORDER BY order LIMIT limit
QueryStmts ==
  { Query(p, sel, w, o, l) :
      p \in Paths, sel \in SelectClauses, w \in WhereClauses,
      o \in QueryOrders, l \in LimitClauses }

\* INSERT INTO p VALUES (one row)
RowStmts == { Insert(p, << <<r>> >>, <<>>) : p \in Paths, r \in ValueRows }

\* next(entry_node) by a caller that has already seen the end of entry_node
PullEnded ==
  /\ pc \in { "returned", "repulled" }
  /\ entry_node # <<>>
  /\ \E c \in { Node_next(entry_node[1], disk) } :
       /\ entry_node' = <<c.node>>
       /\ disk' = c.disk
       /\ exc' = IF c.exc \in {NoExc, "StopIteration"} THEN NoExc ELSE c.exc
       /\ result' = IF c.exc = NoExc THEN Append(result, c.row) ELSE result
  /\ pc' = "repulled"
  /\ UNCHANGED <<stmt, disk0, pulled, log>>
  /\ UNCHANGED pagevars

NextQuery ==
  \/ \E s \in QueryStmts : ExecuteDMLBegin(s)
  \/ \E s \in RowStmts :
       /\ Len(log[s.into_clause]) < MaxRows
       /\ ExecuteDMLBegin(s)
  \/ ExecuteDMLPull
  \/ PullEnded

SpecQuery == InitSort /\ [][NextQuery]_vars

----------------------------------------------------------------------------
(* Properties of the statement level (Spec).                               *)

IsFullScan(s) ==
  /\ s.kind = "Query"
  /\ s.select_clause = <<>> /\ s.where_clause = <<>>
  /\ s.order_clause = <<>> /\ s.limit_clause = <<>>

\* the statement is an Insert whose first pull has returned its row and
\* whose second pull has not happened
InsertedOnce ==
  /\ stmt.kind = "Insert"
  /\ pc = "pulling"
  /\ Len(result) = 1

\* the number of page_size pages of a file
NumPages(file) == Len(file) \div PageSize

\* the records a file holds: the num_records words of its pages, added up
RECURSIVE RecordCount(_)
RecordCount(file) ==
  IF Len(file) < PageSize THEN 0
  ELSE HeapPage_num_records(file) + RecordCount(SubSeq(file, PageSize + 1, Len(file)))

\* C1: after any sequence of Insert statements on a created table, a full
\* scan yields exactly the inserted rows, each once, in statement order and
\* then row order: the result of every SELECT * FROM p that returns is the
\* list of the rows inserted into p, and so is a drain of FileScanNode(p)
\* in every state
ScanFaithful ==
  /\ (pc = "returned" /\ IsFullScan(stmt)) => result = log[stmt.from_clause]
  /\ \A p \in Paths :
       disk[p] # <<>> =>
         LET dr == Drain(FileScanNode(p), disk)
         IN  dr.exc = NoExc /\ dr.rows = log[p]

\* C1 witness: a scan has returned the rows of more than one Insert
\* statement, from a file that page rotation has extended
ScanFaithfulWitness ==
  /\ pc = "returned" /\ IsFullScan(stmt)
  /\ Len(result) > MaxRows
  /\ result[1] # result[2]
  /\ NumPages(disk[stmt.from_clause][1]) >= 3

\* C2: an Insert statement is a single-shot sink whatever its child yields:
\* execute_dml never collects a second row from an InsertNode
InsertSingleShot ==
  stmt.kind = "Insert" => Len(result) <= 1

\* C3: the row the first pull of InsertNode returns is [k], k the number of
\* rows pulled from its child (all the rows of the values_clause), and the
\* table's file holds exactly k more records than when the statement began
InsertCount ==
  InsertedOnce =>
    /\ result[1] = <<Len(pulled)>>
    /\ Len(pulled) = Len(stmt.values_clause[1])
    /\ RecordCount(disk[stmt.into_clause][1])
         = RecordCount(disk0[stmt.into_clause][1]) + Len(pulled)

\* C3 witness: an Insert of several rows has returned its count after
\* extending the file
InsertCountWitness ==
  /\ InsertedOnce
  /\ Len(pulled) >= 3
  /\ Len(disk[stmt.into_clause][1]) > Len(disk0[stmt.into_clause][1])

\* the bytes a row takes in a page: its record and its slot
RowCost(row) == 2 + Len(MarshallRecord(Schema, row).bytes)

RECURSIVE RowsCost(_)
RowsCost(rows) == IF rows = <<>> THEN 0 ELSE RowCost(Head(rows)) + RowsCost(Tail(rows))

\* rows that fill one empty page, and one more row that no longer fits in it
FillsPagePlusOne(rows) ==
  /\ Len(rows) >= 2
  /\ RowsCost(SubSeq(rows, 1, Len(rows) - 1)) <= PageSize - 2
  /\ RowsCost(rows) > PageSize - 2

\* C4: inserting one page of rows plus one more row into a freshly created
\* table gives a file of exactly two pages that scans to the rows in
\* insertion order (the initial empty page is filled before a page is added)
FillPlusOneIsTwoPages ==
  (/\ InsertedOnce
   /\ disk0[stmt.into_clause] = <<HeapPage_marshall(HeapPage_new(PageSize))>>
   /\ FillsPagePlusOne(TypedRows(stmt.values_clause[1])))
  => /\ NumPages(disk[stmt.into_clause][1]) = 2
     /\ Drain(FileScanNode(stmt.into_clause), disk).rows
          = TypedRows(stmt.values_clause[1])

----------------------------------------------------------------------------
(* Properties of the page level (SpecPage).                                *)

\* slot[i] of a page buffer, i from 0
Slot(buff, i) == unpack_H(Slice(buff, 2 + 2 * i, 4 + 2 * i))

RecordLen(record) == Len(MarshallRecord(Schema, record).bytes)

\* C5: a HeapPage adopted from the image of a page that insert_record built
\* from an empty page equals that page: same num_records, same
\* records_start (page_size for an empty page, else the last slot), same
\* free_bytes, and the same answer to every next insert_record
AdoptEquivalent ==
  (last.op = "adopt" /\ last.fresh) =>
    LET p == last.before
        n == HeapPage_num_records(p.buff)
    IN  /\ HeapPage_num_records(page.buff) = n
        /\ page.records_start = p.records_start
        /\ page.records_start = IF n = 0 THEN PageSize ELSE Slot(p.buff, n - 1)
        /\ HeapPage_free_bytes(page) = HeapPage_free_bytes(p)
        /\ \A r \in PageRecords :
             HeapPage_insert_record(page, Schema, r).exc
               = HeapPage_insert_record(p, Schema, r).exc

\* C6: insert_record on a page with F free bytes, F = page_size - 2
\* - 2 * num_records - (page_size - records_start), succeeds if and only if
\* the marshalled record of length L has L + 2 <= F, and otherwise raises
\* InsufficientSpaceError
CapacityLaw ==
  last.op = "insert_record" =>
    LET p == last.before
        F == PageSize - 2 - 2 * HeapPage_num_records(p.buff)
               - (PageSize - p.records_start)
        L == RecordLen(last.record)
    IN  /\ (last.exc = NoExc) <=> (L + 2 <= F)
        /\ last.exc \in { NoExc, "InsufficientSpaceError" }

\* C6 witness: a record of exactly F - 2 bytes was accepted
CapacityLawWitness ==
  /\ last.op = "insert_record"
  /\ last.exc = NoExc
  /\ last.fresh
  /\ RecordLen(last.record) = HeapPage_free_bytes(last.before) - 2

\* a record of F - 1 bytes was rejected
CapacityRejectWitness ==
  /\ last.op = "insert_record"
  /\ last.exc = "InsufficientSpaceError"
  /\ last.fresh
  /\ RecordLen(last.record) = HeapPage_free_bytes(last.before) - 1

\* C7: an insert_record that raises leaves the page as it was: the buffer,
\* record_pointers_end, records_start (and so num_records) are unchanged
FailedInsertIsNoOp ==
  (last.op = "insert_record" /\ last.exc # NoExc) =>
    /\ page.buff = last.before.buff
    /\ page.record_pointers_end = last.before.record_pointers_end
    /\ page.records_start = last.before.records_start
    /\ HeapPage_num_records(page.buff) = HeapPage_num_records(last.before.buff)

\* C7 witness: insert_record has raised InsufficientSpaceError on a page
\* that holds records
FailedInsertWitness ==
  /\ last.op = "insert_record"
  /\ last.exc = "InsufficientSpaceError"
  /\ last.fresh
  /\ HeapPage_num_records(page.buff) >= 2

\* C8: after any insert_record calls on an empty page, num_records is the
\* number of accepted records, the slots strictly decrease, record 0 ends
\* at page_size (and record i at slot i - 1) and the last slot is at or
\* after the end of the slot array
PageLayout ==
  LET n == HeapPage_num_records(page.buff)
  IN  /\ n = Len(inserted)
      /\ \A i \in 0..(n - 2) : Slot(page.buff, i) > Slot(page.buff, i + 1)
      /\ n > 0 => Slot(page.buff, 0) + RecordLen(inserted[1]) = PageSize
      /\ n > 0 => Slot(page.buff, n - 1) >= 2 + 2 * n
      /\ \A i \in 1..(n - 1) :
           Slot(page.buff, i) + RecordLen(inserted[i + 1]) = Slot(page.buff, i - 1)

\* C8 witness: a page of three records after a rejected insert_record
PageLayoutWitness ==
  /\ fresh
  /\ HeapPage_num_records(page.buff) >= 3
  /\ last.op = "insert_record"
  /\ last.exc = "InsufficientSpaceError"

\* C9: the page rebuilt from the marshalled bytes iterates to the accepted
\* records, with the same values, in insertion order
PageRoundTrip ==
  LET r == HeapPage_rows(HeapPage_from_buff(HeapPage_marshall(page)), Schema)
  IN  r.exc = NoExc /\ r.rows = inserted

\* C9 witness: a rebuilt page of two different records, one with a
\* two-byte character, iterated to its end
PageRoundTripWitness ==
  /\ ~fresh
  /\ Len(inserted) >= 2
  /\ inserted[1] # inserted[2]
  /\ inserted[2][2] = <<97, 233>>
  /\ last.op = "next" /\ last.exc = "StopIteration"
  /\ page.iter_idx = Len(inserted)

----------------------------------------------------------------------------
(* Properties of the query level (SpecSort).                               *)

\* the statement is SELECT * FROM p ORDER BY ..., with no other clause
IsSortQuery(s) ==
  /\ s.kind = "Query"
  /\ s.order_clause # <<>> /\ s.order_clause[1] # <<>>
  /\ s.select_clause = <<>> /\ s.where_clause = <<>> /\ s.limit_clause = <<>>

\* how often row r occurs in rows
Occurrences(rows, r) == Cardinality({ i \in 1..Len(rows) : rows[i] = r })

IsPermutation(a, b) ==
  /\ Len(a) = Len(b)
  /\ \A i \in 1..Len(a) : Occurrences(a, a[i]) = Occurrences(b, a[i])

\* row a goes strictly before row b in the order of the sort-column list:
\* the first listed column on which they differ decides, by its own asc flag
RECURSIVE LexBefore(_, _, _)
LexBefore(a, b, cols) ==
  IF cols = <<>> THEN FALSE
  ELSE LET i == IndexOf(Columns(Schema), Head(cols).column)
           t == Schema[i].dtype
       IN  IF a[i] = b[i] THEN LexBefore(a, b, Tail(cols))
           ELSE IF Head(cols).asc THEN ValueLess(t, a[i], b[i])
           ELSE ValueLess(t, b[i], a[i])

\* C10: the rows an ORDER BY query returns are a permutation of the rows of
\* the table, in lexicographic order of the sort-column list: first column
\* most significant, each column ascending or descending by its own flag
SortLexicographic ==
  (IsSortQuery(stmt) /\ pc \in { "pulling", "returned" }) =>
    /\ \A i \in 1..(Len(result) - 1) :
         ~LexBefore(result[i + 1], result[i], stmt.order_clause[1])
    /\ pc = "returned" => IsPermutation(result, log[stmt.from_clause])

\* C10 witness: a query on two sort columns of opposite directions has
\* returned three rows, two of them tied on the first column and put in
\* order by the second
SortLexicographicWitness ==
  /\ IsSortQuery(stmt) /\ pc = "returned"
  /\ Len(stmt.order_clause[1]) = 2
  /\ stmt.order_clause[1][1].column # stmt.order_clause[1][2].column
  /\ stmt.order_clause[1][1].asc # stmt.order_clause[1][2].asc
  /\ Len(result) >= 3
  /\ result # log[stmt.from_clause]
  /\ \E i \in 1..(Len(result) - 1) :
       /\ LexBefore(result[i], result[i + 1], stmt.order_clause[1])
       /\ ~LexBefore(result[i], result[i + 1], <<stmt.order_clause[1][1]>>)

\* the rows of rows that agree with row r on every column of cols, in the
\* order in which rows holds them
KeyClass(rows, r, cols) ==
  SelectSeq(rows,
            LAMBDA x : \A k \in 1..Len(cols) :
                         x[IndexOf(Columns(Schema), cols[k].column)]
                           = r[IndexOf(Columns(Schema), cols[k].column)])

\* C11: an ORDER BY query is stable: the rows that agree on every sort
\* column come out in the order in which the scan of the table produced
\* them, whatever the directions of the sort columns
SortStable ==
  (IsSortQuery(stmt) /\ pc = "returned") =>
    \A i \in 1..Len(result) :
      KeyClass(result, result[i], stmt.order_clause[1])
        = KeyClass(log[stmt.from_clause], result[i], stmt.order_clause[1])

----------------------------------------------------------------------------
(* Properties of the operator level (SpecQuery).                           *)

\* the rows of rows that pass the where clause, in order; every row for no
\* where clause
RefSelect(rows, where) ==
  IF where = <<>> THEN rows
  ELSE SelectSeq(rows,
                 LAMBDA r :
                   Predicate(where[1],
                             [k \in 1..Len(where[1].column_args) |->
                                r[IndexOf(Columns(Schema), where[1].column_args[k])]]))

\* C12: a query with LIMIT n, n >= 0, returns exactly min(n, m) rows, m the
\* number of rows of the table that pass its where clause; none for n = 0
LimitBound ==
  (stmt.kind = "Query" /\ stmt.limit_clause # <<>> /\ pc = "returned") =>
    Len(result) = Min(stmt.limit_clause[1],
                      Len(RefSelect(log[stmt.from_clause], stmt.where_clause)))

\* x put into the sorted list after every element it does not go before
RECURSIVE RefInsert(_, _, _)
RefInsert(sorted, x, cols) ==
  IF sorted = <<>> THEN <<x>>
  ELSE IF LexBefore(x, Head(sorted), cols) THEN <<x>> \o sorted
  ELSE <<Head(sorted)>> \o RefInsert(Tail(sorted), x, cols)

\* rows in the lexicographic order of the sort-column list, ties in the
\* order of rows; rows itself for no order clause
RECURSIVE RefSort(_, _)
RefSort(rows, order) ==
  IF order = <<>> \/ rows = <<>> THEN rows
  ELSE RefInsert(RefSort(SubSeq(rows, 1, Len(rows) - 1), order), rows[Len(rows)],
                 order[1])

\* the first n rows; rows itself for no limit clause
RefLimit(rows, limit) ==
  IF limit = <<>> THEN rows ELSE SubSeq(rows, 1, Min(limit[1], Len(rows)))

\* the selected columns of every row; rows itself for no select clause
RefProject(rows, select) ==
  IF select = <<>> THEN rows
  ELSE [i \in 1..Len(rows) |->
          [k \in 1..Len(select[1]) |-> rows[i][IndexOf(Columns(Schema), select[1][k])]]]

\* project(limit(sort(select(rows)))) for the clauses of query s
RefQuery(s, rows) ==
  RefProject(RefLimit(RefSort(RefSelect(rows, s.where_clause), s.order_clause),
                      s.limit_clause),
             s.select_clause)

\* C13: the result of a query is project(limit(sort(select(scan)))) of the
\* table, each stage being the identity where its clause is absent
PipelineOrder ==
  (stmt.kind = "Query" /\ pc = "returned") =>
    result = RefQuery(stmt, log[stmt.from_clause])

----------------------------------------------------------------------------
(* Properties of the statement level (Spec), continued.                    *)

\* C14: CREATE TABLE on a path that exists raises the ValueError of
\* execute_ddl (TableAlreadyExists) and leaves the file as it was, whatever
\* statements built the file
CreateExistingFails ==
  (stmt.kind = "CreateTable" /\ disk0[stmt.table] # <<>>) =>
    /\ pc = "raised"
    /\ exc = "ValueError"
    /\ disk = disk0

\* C14 witness: CREATE TABLE has failed on a file of at least two pages
\* that holds records
CreateExistingFailsWitness ==
  /\ stmt.kind = "CreateTable"
  /\ disk0[stmt.table] # <<>>
  /\ NumPages(disk0[stmt.table][1]) >= 2
  /\ RecordCount(disk0[stmt.table][1]) >= 2
  /\ pc = "raised"

----------------------------------------------------------------------------
(* The insert level: a destination table t and a source table u that is    *)
(* only read.  Insert statements carry well-formed rows, rows whose first   *)
(* literal is not a number, rows shorter and longer than the schema, a row  *)
(* too large for any page, both clauses, no clause, or a from_clause.       *)

\* the table of the from_clause
Sources == { "u" }

Files == Paths \cup Sources

\* a title that fills a page: no page of page_size bytes holds its record
OversizeText == [i \in 1..(PageSize - 8) |-> 97]

\* values rows: two that match the schema, "x" for the UInt32 column, one
\* literal, three literals, and a title of page_size - 8 characters
InsRows ==
  { << <<49>>, <<>> >>, << <<50, 53, 56>>, <<233>> >>, << <<120>>, <<>> >>,
    << <<50, 53, 56>> >>, << <<49>>, <<233>>, <<233>> >>, << <<49>>, OversizeText >> }

\* the rows of InsRows that match the schema
GoodRows == { << <<49>>, <<>> >>, << <<50, 53, 56>>, <<233>> >> }

\* values clauses: one row, a matching row and then any row, and two
\* matching rows and then any row
InsValueLists ==
  { <<r>> : r \in InsRows } \cup { <<g, r>> : g \in GoodRows, r \in InsRows }
    \cup { <<g, g, r>> : g \in { << <<49>>, <<>> >> }, r \in InsRows }

\* SELECT * FROM u
SourceScan == Query("u", <<>>, <<>>, <<>>, <<>>)

\* INSERT INTO t VALUES vs
InsValuesStmts == { Insert(p, <<vs>>, <<>>) : p \in Paths, vs \in InsValueLists }

\* INSERT INTO t SELECT * FROM u
InsFromStmts == { Insert(p, <<>>, <<SourceScan>>) : p \in Paths }

\* AbstractInsert with values_clause and from_clause both set, and with neither
InsMalformedStmts ==
  { Insert(p, <<vs>>, <<SourceScan>>) : p \in Paths, vs \in { << << <<49>>, <<>> >> >> } }
    \cup { Insert(p, <<>>, <<>>) : p \in Paths }

\* the rows the statement offers to the table
Offered(s) ==
  IF s.values_clause # <<>> THEN Len(s.values_clause[1])
  ELSE IF s.from_clause # <<>> THEN Len(log[s.from_clause[1].from_clause])
  ELSE 0

\* the table stays within the table size of the model
FitsFile(s) ==
  IF disk[s.into_clause] = <<>> THEN TRUE
  ELSE RecordCount(disk[s.into_clause][1]) + Offered(s) <= MaxTableRows

\* the contents of u
SourceLists == { <<>>, << << <<49>>, <<>> >>, << <<50, 53, 56>>, <<233>> >> >> }

InitIns ==
  /\ PageIdle
  /\ \E vs \in SourceLists :
       /\ disk = [p \in Files |-> IF p \in Sources THEN LoadedDisk(vs)["t"] ELSE <<>>]
       /\ log = [p \in Files |-> IF p \in Sources THEN TypedRows(vs) ELSE <<>>]
  /\ disk0 = disk
  /\ pc = "idle"
  /\ stmt = NoStmt
  /\ entry_node = <<>>
  /\ result = <<>>
  /\ exc = NoExc
  /\ pulled = <<>>

NextIns ==
  \/ \E s \in CreateStmts : ExecuteDDL(s)
  \/ \E s \in InsValuesStmts : FitsFile(s) /\ ExecuteDMLBegin(s)
  \/ \E s \in InsFromStmts : FitsFile(s) /\ ExecuteDMLBegin(s)
  \/ \E s \in InsMalformedStmts : ExecuteDMLBegin(s)
  \/ ExecuteDMLPull

SpecIns == InitIns /\ [][NextIns]_vars

----------------------------------------------------------------------------
(* Properties of the insert level (SpecIns).                               *)

\* C15: the length of every heap file is a positive multiple of page_size;
\* when CreateTable has returned, the file of its table is one page that
\* holds no record; and no step of a CreateTable or of an Insert, completed
\* or failed, removes a file or shortens it: it grows by whole pages only
FileLengthLaw ==
  /\ [](\A p \in Files :
          disk[p] # <<>> => Len(disk[p][1]) > 0 /\ Len(disk[p][1]) % PageSize = 0)
  /\ [](stmt.kind = "CreateTable" /\ pc = "returned"
          => /\ disk[stmt.table] # <<>>
             /\ Len(disk[stmt.table][1]) = PageSize
             /\ HeapPage_num_records(disk[stmt.table][1]) = 0
             /\ disk[stmt.table][1] = HeapPage_new(PageSize).buff)
  /\ [][\A p \in Files :
          disk[p] # <<>>
            => /\ disk'[p] # <<>>
               /\ Len(disk'[p][1]) >= Len(disk[p][1])
               /\ (Len(disk'[p][1]) - Len(disk[p][1])) % PageSize = 0]_vars

\* an Insert that failed after it had written to a file of two pages or more
FileLengthLawWitness ==
  /\ stmt.kind = "Insert"
  /\ pc = "raised"
  /\ disk # disk0
  /\ NumPages(disk["t"][1]) >= 2

\* C16: an Insert with values_clause and from_clause both set, or with
\* neither, raises ValueError (the MalformedStatement of execute_dml) before
\* any node is built, and leaves every file as it was; an Insert with
\* exactly one of them gets its InsertNode and is pulled
MalformedInsertFails ==
  stmt.kind = "Insert" =>
    IF (stmt.values_clause # <<>>) = (stmt.from_clause # <<>>)
    THEN /\ pc = "raised"
         /\ exc = "ValueError"
         /\ entry_node = <<>>
         /\ result = <<>>
         /\ disk = disk0
    ELSE /\ entry_node # <<>>
         /\ entry_node[1].kind = "Insert"
         /\ entry_node[1].path = stmt.into_clause

\* an Insert with both clauses, refused on a table that holds records
MalformedInsertFailsWitness ==
  /\ stmt.kind = "Insert"
  /\ stmt.values_clause # <<>>
  /\ stmt.from_clause # <<>>
  /\ pc = "raised"
  /\ disk[stmt.into_clause] # <<>>
  /\ RecordCount(disk[stmt.into_clause][1]) > 0
  /\ log[stmt.from_clause[1].from_clause] # <<>>

\* a values row whose length is not that of the schema
WrongArity(row) == Len(row) # Len(Schema)

\* C17: ValuesNode refuses every values row whose length differs from the
\* schema's: an Insert whose values_clause holds such a row never returns,
\* and every record the InsertNode has taken from its child has one value
\* for each column of the schema
ArityEnforced ==
  stmt.kind = "Insert" /\ stmt.values_clause # <<>> =>
    /\ \A k \in 1..Len(pulled) : ~WrongArity(pulled[k])
    /\ (\E k \in 1..Len(stmt.values_clause[1]) : WrongArity(stmt.values_clause[1][k]))
         => pc # "returned"

----------------------------------------------------------------------------
(* Properties of the operator level (SpecQuery), continued.                *)

\* the nodes of the plan under n that have signalled end when n has: n, and
\* the child whose end n passed on (a LimitNode that still has budget ended
\* because its child did)
RECURSIVE EndedNodes(_)
EndedNodes(n) ==
  IF n.kind \in { "FileScan", "Values" } THEN { n }
  ELSE IF n.kind = "Limit" /\ n.limit <= 0 THEN { n }
  ELSE { n } \cup EndedNodes(n.child)

\* C18: a node that has signalled end signals end at every later pull, and
\* yields no row and writes nothing: when the statement has returned and no
\* file has changed since, a pull of the entry node or of a node below it
\* that has ended raises StopIteration, and pulling the entry node again
\* leaves the result and the files as they were
SinglePass ==
  /\ [](pc \in { "returned", "repulled" } /\ entry_node # <<>>
          => \A n \in EndedNodes(entry_node[1]) :
               LET c == Node_next(n, disk)
               IN  c.exc = "StopIteration" /\ c.row = <<>> /\ c.disk = disk)
  /\ [][pc' = "repulled"
          => result' = result /\ disk' = disk /\ exc' = NoExc]_vars

\* a sorted query that delivered rows, pulled again after its end
SinglePassWitness ==
  /\ pc = "repulled"
  /\ stmt.kind = "Query"
  /\ stmt.order_clause # <<>>
  /\ result # <<>>
  /\ Cardinality(EndedNodes(entry_node[1])) >= 2

----------------------------------------------------------------------------
(* Properties of the insert level (SpecIns), continued.                    *)

\* the records of a page buffer as the bytes between its slots, first
\* inserted first
RawRecords(buff) ==
  [k \in 1..HeapPage_num_records(buff) |->
     Slice(buff, Slot(buff, k - 1), IF k = 1 THEN Len(buff) ELSE Slot(buff, k - 2))]

\* C19: at every point of an Insert into an existing table, completed or
\* failed, the file is no shorter than before the statement, every page
\* before the original last page has the bytes it had, the records the
\* original last page held are the first records of the page now at its
\* position, byte for byte and in the same order, and no other file changed
AppendOnly ==
  stmt.kind = "Insert" /\ disk0[stmt.into_clause] # <<>> =>
    /\ disk[stmt.into_clause] # <<>>
    /\ \A p \in Files \ { stmt.into_clause } : disk[p] = disk0[p]
    /\ LET f0 == disk0[stmt.into_clause][1]
           f == disk[stmt.into_clause][1]
           at == Len(f0) - PageSize
           before == RawRecords(Slice(f0, at, at + PageSize))
           after == RawRecords(Slice(f, at, at + PageSize))
       IN  /\ Len(f) >= Len(f0)
           /\ SubSeq(f, 1, at) = SubSeq(f0, 1, at)
           /\ Len(after) >= Len(before)
           /\ SubSeq(after, 1, Len(before)) = before

\* an Insert that returned after it had added records to the last of
\* several pages and then extended the file
AppendOnlyWitness ==
  /\ stmt.kind = "Insert"
  /\ pc = "returned"
  /\ disk0[stmt.into_clause] # <<>>
  /\ LET f0 == disk0[stmt.into_clause][1]
         f == disk[stmt.into_clause][1]
         at == Len(f0) - PageSize
     IN  /\ NumPages(f0) >= 2
         /\ Len(f) > Len(f0)
         /\ HeapPage_num_records(Slice(f0, at, at + PageSize)) >= 1
         /\ HeapPage_num_records(Slice(f, at, at + PageSize))
              > HeapPage_num_records(Slice(f0, at, at + PageSize))

----------------------------------------------------------------------------
(* Properties of the operator level (SpecQuery), continued.                *)

\* the LimitNode of the plan under n, if it has one
RECURSIVE LimitNodes(_)
LimitNodes(n) ==
  IF n.kind = "Limit" THEN { n }
  ELSE IF n.kind \in { "FileScan", "Values" } THEN {}
  ELSE LimitNodes(n.child)

\* C20: a LimitNode built with limit n has pulled its child at most n times,
\* however often it has been pulled itself: what is left of its limit is n
\* less the pulls of the child, and when nothing is left a pull raises
\* StopIteration and leaves the node, its child included, as it was
LimitPullsBounded ==
  entry_node # <<>> =>
    \A n \in LimitNodes(entry_node[1]) :
      /\ n.child_pulls <= n.budget
      /\ n.limit = n.budget - n.child_pulls
      /\ n.limit <= 0 =>
           LET c == LimitNode_next(n, disk)
           IN  c.exc = "StopIteration" /\ c.node = n /\ c.disk = disk

\* LIMIT 2 on a table of more than two rows, pulled again after its end
LimitPullsBoundedWitness ==
  /\ pc = "repulled"
  /\ stmt.kind = "Query"
  /\ stmt.limit_clause = <<2>>
  /\ Len(result) = 2
  /\ Len(log[stmt.from_clause]) > 2
  /\ \E n \in LimitNodes(entry_node[1]) : n.child_pulls = 2 /\ n.budget = 2

\* the values row is well-formed and its record fits no empty page
Oversize(row) ==
  /\ ~WrongArity(row)
  /\ FromStrColumns(Schema, row, 1).exc = NoExc
  /\ HeapPage_insert_record(HeapPage_new(PageSize), Schema,
                            FromStrColumns(Schema, row, 1).row).exc
       = "InsufficientSpaceError"

\* the values row is well-formed and its record fits an empty page
Insertable(row) ==
  /\ ~WrongArity(row)
  /\ FromStrColumns(Schema, row, 1).exc = NoExc
  /\ HeapPage_insert_record(HeapPage_new(PageSize), Schema,
                            FromStrColumns(Schema, row, 1).row).exc = NoExc

\* the rows a scan of the file system d finds in the table at path
ScanOf(d, path) == Drain(FileScanNode(path), d)

\* C21: when the j-th row of INSERT INTO p VALUES vs is too large for an
\* empty page and the rows before it are insertable, the statement raises
\* InsufficientSpaceError with no result, the file of p is a whole number
\* of pages, and a scan of p yields the rows it yielded before the statement
\* followed by the first j-1 rows of vs, each once and in order
OversizePrefixPersisted ==
  ( /\ stmt.kind = "Insert"
    /\ pc # "pulling"
    /\ stmt.values_clause # <<>>
    /\ stmt.from_clause = <<>>
    /\ disk0[stmt.into_clause] # <<>>
    /\ ScanOf(disk0, stmt.into_clause).exc = NoExc )
  => \A j \in 1..Len(stmt.values_clause[1]) :
       ( /\ Oversize(stmt.values_clause[1][j])
         /\ \A k \in 1..(j - 1) : Insertable(stmt.values_clause[1][k]) )
       => /\ pc = "raised"
          /\ exc = "InsufficientSpaceError"
          /\ result = <<>>
          /\ Len(disk[stmt.into_clause][1]) % PageSize = 0
          /\ ScanOf(disk, stmt.into_clause).exc = NoExc
          /\ ScanOf(disk, stmt.into_clause).rows
               = ScanOf(disk0, stmt.into_clause).rows
                   \o TypedRows(SubSeq(stmt.values_clause[1], 1, j - 1))

\* a table that holds a row, and an Insert into it that failed on its third
\* row after it had persisted its first two
OversizePrefixPersistedWitness ==
  /\ stmt.kind = "Insert"
  /\ pc = "raised"
  /\ exc = "InsufficientSpaceError"
  /\ stmt.values_clause # <<>>
  /\ Len(stmt.values_clause[1]) = 3
  /\ Oversize(stmt.values_clause[1][3])
  /\ disk0[stmt.into_clause] # <<>>
  /\ ScanOf(disk0, stmt.into_clause).exc = NoExc
  /\ Len(ScanOf(disk0, stmt.into_clause).rows) >= 1
  /\ Len(ScanOf(disk, stmt.into_clause).rows)
       = Len(ScanOf(disk0, stmt.into_clause).rows) + 2

----------------------------------------------------------------------------
(* The self-insert level: INSERT INTO t SELECT * FROM t on a loaded table.  *)
(* InsertNode.__next__ runs one iteration of its for loop at a step; f is   *)
(* its frame: the node, the HeapPage it holds and its file position.  The   *)
(* FileScanNode reads the same file through a buffered reader of its own    *)
(* while the InsertNode writes through a buffered writer, so a page the     *)
(* scan reads is either the page as the file was when the statement began   *)
(* or the page as the writes so far have left it.                           *)

\* INSERT INTO p SELECT * FROM p
SelfInsertStmts ==
  { Insert(p, <<>>, <<Query(p, <<>>, <<>>, <<>>, <<>>)>>) : p \in Paths }

\* the locals of InsertNode.__next__ when it enters its for loop
InsertFrame(n, pg, pos) == [kind |-> "InsertFrame", node |-> n, page |-> pg, pos |-> pos]

\* InsertNode.__next__ up to the for loop: [exc, frame]
InsertNode_open(n, d) ==
  LET load(pos) ==
        [exc |-> NoExc,
         frame |-> <<InsertFrame(n, HeapPage_from_buff(Slice(d[n.path][1], pos,
                                                             pos + n.page_size)), pos)>>]
  IN  IF n.num_inserted > 0 THEN [exc |-> "StopIteration", frame |-> <<>>]
      ELSE IF d[n.path] = <<>> THEN [exc |-> "FileNotFoundError", frame |-> <<>>]
      ELSE IF Len(d[n.path][1]) < n.page_size THEN [exc |-> "OSError", frame |-> <<>>]
      ELSE load(Len(d[n.path][1]) - n.page_size)

\* one iteration of "for record in self._child", or what follows the loop
\* when the child ends; c is the pull of the child, d the file system the
\* writes go to: [exc, done, frame, disk, row]
InsertNode_iteration(f, d, c) ==
  LET n1 == [f.node EXCEPT !.child = c.node]
      step(e, done, n2, pg, pos, d2, row) ==
        [exc |-> e, done |-> done, frame |-> InsertFrame(n2, pg, pos), disk |-> d2,
         row |-> row]
      rotate(d2, i2) ==
        IF i2.exc # NoExc THEN step(i2.exc, TRUE, n1, f.page, f.pos, d2, <<>>)
        ELSE step(NoExc, FALSE, InsertNode_count(n1), i2.page,
                  f.pos + f.node.page_size, d2, <<>>)
      insert(i1) ==
        IF i1.exc = NoExc
        THEN step(NoExc, FALSE, InsertNode_count(n1), i1.page, f.pos, d, <<>>)
        ELSE IF i1.exc # "InsufficientSpaceError"
        THEN step(i1.exc, TRUE, n1, f.page, f.pos, d, <<>>)
        ELSE rotate(FileWrite(d, f.node.path, f.pos, HeapPage_marshall(f.page)),
                    HeapPage_insert_record(HeapPage_new(PageSize), Schema, c.row))
  IN  IF c.exc = "StopIteration"
      THEN step(NoExc, TRUE, n1, f.page, f.pos,
                IF HeapPage_num_records(f.page.buff) > 0
                THEN FileWrite(d, f.node.path, f.pos, HeapPage_marshall(f.page))
                ELSE d,
                <<n1.num_inserted>>)
      ELSE IF c.exc # NoExc THEN step(c.exc, TRUE, n1, f.page, f.pos, d, <<>>)
      ELSE insert(HeapPage_insert_record(f.page, Schema, c.row))

\* execute(s) for INSERT INTO p SELECT * FROM p, up to the for loop of
\* InsertNode.__next__
SelfInsertBegin(s) ==
  /\ pc \notin { "pulling", "inserting" }
  /\ \E e \in { execute_dml_entry_node(s, disk) } :
       IF e.exc # NoExc
       THEN /\ entry_node' = <<>>
            /\ exc' = e.exc
            /\ pc' = "raised"
       ELSE \E o \in { InsertNode_open(e.node[1], disk) } :
              /\ entry_node' = o.frame
              /\ exc' = o.exc
              /\ pc' = IF o.exc = NoExc THEN "inserting" ELSE "raised"
  /\ stmt' = s
  /\ result' = <<>>
  /\ disk0' = disk
  /\ pulled' = <<>>
  /\ UNCHANGED <<disk, log>>
  /\ UNCHANGED pagevars

\* one iteration of the for loop: the scan reads from the file as it was
\* when the statement began or as it is now, the insert writes to the file
SelfInsertIterate ==
  /\ pc = "inserting"
  /\ Len(pulled) <= MaxTableRows
  /\ \E view \in { disk0, disk } :
       \E c \in { Node_next(entry_node[1].node.child, view) } :
         \E i \in { InsertNode_iteration(entry_node[1], disk, c) } :
           /\ entry_node' = <<i.frame>>
           /\ disk' = i.disk
           /\ exc' = i.exc
           /\ pc' = IF i.exc # NoExc THEN "raised"
                    ELSE IF i.done THEN "returned" ELSE "inserting"
           /\ result' = IF i.exc = NoExc /\ i.done THEN <<i.row>> ELSE <<>>
           /\ pulled' = IF c.exc = NoExc THEN Append(pulled, c.row) ELSE pulled
  /\ UNCHANGED <<stmt, disk0, log>>
  /\ UNCHANGED pagevars

\* the table is grown by INSERT ... VALUES, and then inserted into itself once
NextSelf ==
  \/ \E s \in InsertStmts : Fits(s) /\ ExecuteDMLBegin(s)
  \/ ExecuteDMLPull
  \/ \E s \in SelfInsertStmts :
       /\ RecordCount(disk[s.into_clause][1]) = Len(log[s.into_clause])
       /\ SelfInsertBegin(s)
  \/ SelfInsertIterate

SpecSelf == InitSort /\ [][NextSelf]_vars

----------------------------------------------------------------------------
(* Properties of the self-insert level (SpecSelf).                         *)

\* C22: INSERT INTO t SELECT * FROM t does not fail, its scan yields no more
\* rows than the table held when the statement began, and when it returns
\* it returns that number and the table holds those rows twice over: the
\* rows it held, followed by the same rows in the same order
SelfInsertExact ==
  stmt \in SelfInsertStmts /\ pc \in { "inserting", "returned", "raised" } =>
    LET rows0 == ScanOf(disk0, stmt.into_clause).rows
    IN  /\ pc # "raised"
        /\ Len(pulled) <= Len(rows0)
        /\ pc = "returned" =>
             /\ result = << <<Len(rows0)>> >>
             /\ ScanOf(disk, stmt.into_clause).exc = NoExc
             /\ ScanOf(disk, stmt.into_clause).rows = rows0 \o rows0

====
